---- MODULE Spec2Model ----
(***************************************************************************)
(* A model of create_bam_links.py: the Sample Resolver (get_sample_dirs    *)
(* and its helpers) and the Link Materializer (create_links).              *)
(*                                                                         *)
(* File names are atoms (strings); Spell gives each name's spelling as a   *)
(* sequence of tokens, and every string operation of the source            *)
(* (endswith, re.search, split, replace) is computed on token sequences.   *)
(***************************************************************************)
EXTENDS Integers, Sequences, FiniteSets, TLC

\* ------------------------------------------------------------------ bounds

\* The largest number of directories below one project's bam_qc.
MaxDirs == 4

\* Modification times are 1..MaxMtime.
MaxMtime == 2

Mtimes == 1..MaxMtime

\* The largest number of bam and bai files in one sample directory.
MaxFiles == 2

\* ------------------------------------------------------- names and strings

FOLDERS_EXCLUDE ==
    {"QC_Results", "log", "picard_metrics", "Joint_QC", "tmp",
     "bams", "duplex", "simplex", "_results"}

\* The spelling of every file name of the model, as tokens.
Spell(name) ==
    CASE name = "current"         -> <<"current">>
      [] name = "old_current"     -> <<"old_", "current">>
      [] name = "Batch1"          -> <<"Batch1">>
      [] name = "run"             -> <<"run">>
      [] name = "deep"            -> <<"deep">>
      [] name = "log"             -> <<"log">>
      [] name = "bam_qc"          -> <<"bam_qc">>
      [] name = "Project_A"       -> <<"Project_A">>
      [] name = "Project_B"       -> <<"Project_B">>
      [] name = "C-1-N1-d"        -> <<"C", "-", "1", "-", "N1", "-", "d">>
      [] name = "Sample_C-1-N1-d" -> <<"Sample_", "C", "-", "1", "-", "N1", "-", "d">>
      [] name = "C-2-L1-d"        -> <<"C", "-", "2", "-", "L1", "-", "d">>
      [] name = "C-1"             -> <<"C", "-", "1">>
      [] name = "C-2"             -> <<"C", "-", "2">>

\* The names a path below outdir is made of.
OutNames == {"C-1", "C-2", "C-1-N1-d", "C-2-L1-d", "Sample_C-1-N1-d"}

\* The name spelled toks.
Unspell(toks) == CHOOSE n \in OutNames : Spell(n) = toks

\* Token classes of the default --sampleregex, "C-(.*)-(L|N)(\d*)-d".
TokEndsWithC == {"C"}
TokIsLNDigits == {"L1", "N1"}
TokStartsWithD == {"d", "deep", "duplex"}

\* The default --runsdir, '/work/access/production/runs/'.
runsdir == <<"/", "work", "/", "access", "/", "production", "/", "runs", "/">>

\* os.path.join(args.runsdir, project, "bam_qc")
bam_qc_path(project) == runsdir \o Spell(project) \o <<"/">> \o Spell("bam_qc")

\* The tokens of the absolute path of directory d (a sequence of names
\* below the project's bam_qc).
RECURSIVE JoinNames(_)
JoinNames(d) ==
    IF d = <<>> THEN <<>>
    ELSE <<"/">> \o Spell(Head(d)) \o JoinNames(Tail(d))

AbsPath(project, d) == bam_qc_path(project) \o JoinNames(d)

\* x.endswith(suffix) for a suffix that is one token.
endswith(x, suffix) == Len(x) > 0 /\ x[Len(x)] = suffix

\* re.search(args.sampleregex, x) is not None, for the default pattern.
re_search(x) ==
    \E i \in 1..Len(x) :
        /\ x[i] \in TokEndsWithC
        /\ i + 1 <= Len(x) /\ x[i + 1] = "-"
        /\ \E j \in (i + 2)..Len(x) :
              /\ j + 3 <= Len(x)
              /\ x[j] = "-"
              /\ x[j + 1] \in TokIsLNDigits
              /\ x[j + 2] = "-"
              /\ x[j + 3] \in TokStartsWithD

\* ---------------------------------------------------------- the runs tree

\* The directories a project's bam_qc may hold, as paths below bam_qc.
Universe ==
    { <<"current">>,
      <<"current", "C-1-N1-d">>,
      <<"current", "Batch1">>,
      <<"current", "Batch1", "C-1-N1-d">>,
      <<"current", "Batch1", "run">>,
      <<"current", "Batch1", "run", "C-1-N1-d">>,
      <<"current", "current">>,
      <<"current", "current", "C-1-N1-d">>,
      <<"C-1-N1-d">>,
      <<"Batch1">>,
      <<"Batch1", "C-1-N1-d">>,
      <<"Batch1", "Sample_C-1-N1-d">>,
      <<"Batch1", "run">>,
      <<"Batch1", "run", "C-1-N1-d">>,
      <<"Batch1", "run", "deep">>,
      <<"Batch1", "run", "deep", "C-1-N1-d">>,
      <<"log">>,
      <<"log", "C-1-N1-d">>,
      <<"old_current">>,
      <<"old_current", "C-1-N1-d">> }

Parent(d) == SubSeq(d, 1, Len(d) - 1)

\* Every tree of at most k directories of Universe.
RECURSIVE TreesUpTo(_)
TreesUpTo(k) ==
    IF k = 0 THEN {{}}
    ELSE LET prev == TreesUpTo(k - 1)
         IN  prev \cup UNION { { t \cup {d} :
                                   d \in { q \in Universe \ t :
                                             Len(q) = 1 \/ Parent(q) \in t } } :
                               t \in prev }

Trees == TreesUpTo(MaxDirs)

Projects == <<"Project_A", "Project_B">>

\* ------------------------------------------------------ the Sample Resolver

VARIABLES
    final_sample_dirs,  \* main's dict: sample name -> [project, d, dir_age]
    pending,            \* the projects main's loop has still to resolve
    pc,                 \* "loop": at the head of main's loop; "called": a
                        \* get_sample_dirs call has just returned
    project,            \* the project of the last get_sample_dirs call
    fs_exists,          \* whether that project's bam_qc exists on disk
    fs,                 \* the directories below that project's bam_qc
    st_mtime,           \* the modification time os.stat gave for each
                        \* directory that call handed to the merge
    examined,           \* the directories that call handed to list_sample_dirs
    matched             \* every [project, d, dir_age] handed to the merge so far

rvars == <<final_sample_dirs, pending, pc, project, fs_exists, fs, st_mtime,
           examined, matched>>

VARIABLES
    args,               \* the options of the run of create_links
    items,              \* the keys of final_sample_dirs, in the dict's order
    src_files,          \* per sample: the bam and bai files glob finds
    src_mtime,          \* the st_mtime of those files
    old_mtime,          \* st_mtime of the files of a superseded sample
                        \* directory "old"; 0 when they are gone
    out,                \* what is at each path below outdir
    out0,               \* out when the run began
    queue,              \* the samples the loop of line 129 has still to do
    fqueue,             \* the files the loop of line 165 has still to do
    pcl,                \* where create_links is: "sample", "file", "latest"
    status,             \* "idle", "running", "done", "exit1" (sys.exit(1))
                        \* or "crashed" (an exception nobody catches)
    count_files_linked, \* per project: [samples, files]
    links_made,         \* per project: the os.symlink calls on files that
                        \* succeeded in this run
    removals,           \* the paths os.remove or os.unlink removed in this run
    run,                \* the number of the run: 0 before the first, 1, 2
    prev                \* the options, status and counts of the run before

lvars == <<args, items, src_files, src_mtime, old_mtime, out, out0, queue,
           fqueue, pcl, status, count_files_linked, links_made, removals,
           run, prev>>

vars == <<rvars, lvars>>

\* All orders in which glob may list the members of S.
Perms(S) ==
    { f \in [1..Cardinality(S) -> S] :
        \A i, j \in 1..Cardinality(S) : i # j => f[i] # f[j] }

Range(s) == { s[i] : i \in 1..Len(s) }

\* A filter_dirs that keeps every path.
filter_dirs_none(proj, dirs) == dirs

\* filter_dirs: drop the paths that end with a name of FOLDERS_EXCLUDE.
filter_dirs(proj, dirs) ==
    { d \in dirs : ~ \E i \in FOLDERS_EXCLUDE : endswith(AbsPath(proj, d), i) }

\* A list_dir that globs recursively: every directory below path.
list_dir_recursive(tree, proj, path) ==
    Perms(filter_dirs(proj, { d \in tree : Len(d) > Len(path)
                                            /\ SubSeq(d, 1, Len(path)) = path }))

\* list_dir: the subdirectories of path that filter_dirs keeps, in every
\* order glob may give them.  A path that does not exist has none.
list_dir(tree, proj, path) ==
    Perms(filter_dirs(proj, { d \in tree : Len(d) = Len(path) + 1
                                            /\ Parent(d) = path }))

\* list_sample_dirs: the members of dirs the pattern matches, in order.
list_sample_dirs(proj, dirs) ==
    SelectSeq(dirs, LAMBDA d : re_search(AbsPath(proj, d)))

\* The filter of lines 93 and 105: the members the pattern does not match.
non_sample_dirs(proj, dirs) ==
    SelectSeq(dirs, LAMBDA d : ~ re_search(AbsPath(proj, d)))

\* A merge that overwrites whatever was found before.
AlwaysOverwrite(stored_age, dir_age) == TRUE

\* A comparison that lets a record of the same age replace the stored one.
IsNotNewer(stored_age, dir_age) == stored_age <= dir_age

\* The comparison of line 32: the stored record is older than the new one.
IsOlder(stored_age, dir_age) == stored_age < dir_age

\* add_sample_dirs_to_dict: merge dirs, in order, into sample_dirs.
RECURSIVE add_sample_dirs_to_dict(_, _, _, _)
add_sample_dirs_to_dict(sample_dirs, dirs, proj, mt) ==
    IF dirs = <<>> THEN sample_dirs
    ELSE LET d == Head(dirs)
             sample_name == d[Len(d)]
             dir_age == mt[d]
             rec == [project |-> proj, d |-> d, dir_age |-> dir_age]
             next ==
                 IF sample_name \in DOMAIN sample_dirs
                 THEN IF IsOlder(sample_dirs[sample_name].dir_age, dir_age)
                      THEN [sample_dirs EXCEPT ![sample_name] = rec]
                      ELSE sample_dirs
                 ELSE [n \in DOMAIN sample_dirs \cup {sample_name} |->
                          IF n = sample_name THEN rec ELSE sample_dirs[n]]
         IN  add_sample_dirs_to_dict(next, Tail(dirs), proj, mt)

\* Lines 94-95 and 106-107: list every member of parents and flatten, in
\* every order glob may give.
RECURSIVE flatten_list_dir(_, _, _)
flatten_list_dir(tree, proj, parents) ==
    IF parents = <<>> THEN {<<>>}
    ELSE { a \o b : a \in list_dir(tree, proj, Head(parents)),
                    b \in flatten_list_dir(tree, proj, Tail(parents)) }

\* Lines 89-95 and 101-107: the next level's candidates, or dirs itself when
\* dirs is empty.
next_level(tree, proj, dirs) ==
    IF dirs # <<>>
    THEN flatten_list_dir(tree, proj, non_sample_dirs(proj, dirs))
    ELSE {dirs}

\* Level-0 candidates without the preference for current.
level0_no_current(tree, proj) == list_dir(tree, proj, <<>>)

\* Lines 76-81: the Level-0 candidates.
level0(tree, proj) ==
    LET dirs == list_dir(tree, proj, <<>>)
    IN  IF \E l \in dirs : \E i \in 1..Len(l) :
               endswith(AbsPath(proj, l[i]), "current")
        THEN list_dir(tree, proj, <<"current">>)
        ELSE dirs

\* get_sample_dirs: every outcome of one call, as the three candidate lists
\* it went through.
get_sample_dirs_levels(tree, proj) ==
    UNION { UNION { { <<l0, l1, l2>> : l2 \in next_level(tree, proj, l1) } :
                    l1 \in next_level(tree, proj, l0) } :
            l0 \in level0(tree, proj) }

\* The dict get_sample_dirs returns after going through levels.
get_sample_dirs(final, levels, proj, mt) ==
    add_sample_dirs_to_dict(
        add_sample_dirs_to_dict(
            add_sample_dirs_to_dict(
                final, list_sample_dirs(proj, levels[1]), proj, mt),
            list_sample_dirs(proj, levels[2]), proj, mt),
        list_sample_dirs(proj, levels[3]), proj, mt)

EmptyMap == [n \in {} |-> 0]

NoArgs == [dryrun |-> FALSE, overwrite |-> FALSE, replace_old |-> FALSE,
           latest |-> FALSE]

NoRun == [args |-> NoArgs, status |-> "idle", count |-> EmptyMap]

\* create_links has not been called.
LinksIdle ==
    /\ args = NoArgs
    /\ items = <<>>
    /\ src_files = EmptyMap
    /\ src_mtime = 0
    /\ old_mtime = 0
    /\ out = EmptyMap
    /\ out0 = EmptyMap
    /\ queue = <<>>
    /\ fqueue = <<>>
    /\ pcl = "sample"
    /\ status = "idle"
    /\ count_files_linked = EmptyMap
    /\ links_made = EmptyMap
    /\ removals = {}
    /\ run = 0
    /\ prev = NoRun

InitResolver ==
    /\ LinksIdle
    /\ final_sample_dirs = EmptyMap
    /\ pending = Projects
    /\ pc = "loop"
    /\ project = ""
    /\ fs_exists = FALSE
    /\ fs = {}
    /\ st_mtime = EmptyMap
    /\ examined = {}
    /\ matched = {}

\* One iteration of main's loop (lines 287-292) on a project whose bam_qc
\* holds the tree `tree`.
GetSampleDirs ==
    /\ pc = "loop"
    /\ pending # <<>>
    /\ LET proj == Head(pending)
       IN  \E ex \in BOOLEAN, tree \in Trees :
             /\ ~ex => tree = {}
             /\ \E levels \in get_sample_dirs_levels(tree, proj) :
                  LET all == levels[1] \o levels[2] \o levels[3]
                  IN  \E mt \in [Range(list_sample_dirs(proj, all)) -> Mtimes] :
                        /\ final_sample_dirs' =
                               get_sample_dirs(final_sample_dirs, levels, proj, mt)
                        /\ examined' = Range(all)
                        /\ matched' = matched \cup
                               { [project |-> proj, d |-> d, dir_age |-> mt[d]] :
                                   d \in Range(list_sample_dirs(proj, all)) }
                        /\ fs' = tree
                        /\ fs_exists' = ex
                        /\ st_mtime' = mt
                        /\ project' = proj
                        /\ pending' = Tail(pending)
                        /\ pc' = "called"
                        /\ UNCHANGED lvars

\* The loop of line 287 moves on: the tree of the call that returned is no
\* longer looked at.
NextProject ==
    /\ pc = "called"
    /\ pc' = "loop"
    /\ project' = ""
    /\ fs_exists' = FALSE
    /\ fs' = {}
    /\ st_mtime' = EmptyMap
    /\ examined' = {}
    /\ UNCHANGED <<final_sample_dirs, pending, matched>>
    /\ UNCHANGED lvars

NextResolver == GetSampleDirs \/ NextProject

SpecResolver == InitResolver /\ [][NextResolver]_vars

\* ------------------------------------------------- claims on the Resolver

SampleName(d) == d[Len(d)]

Max(S) == CHOOSE m \in S : \A x \in S : x <= m

\* C1: after any number of get_sample_dirs calls the map holds one record
\* for every sample name a matched directory had, for no other name, and
\* that record is one of the matched directories of that name and carries
\* the greatest modification time among them.
C1_MergeRule ==
    /\ DOMAIN final_sample_dirs = { SampleName(r.d) : r \in matched }
    /\ \A n \in DOMAIN final_sample_dirs :
         /\ final_sample_dirs[n] \in matched
         /\ SampleName(final_sample_dirs[n].d) = n
         /\ final_sample_dirs[n].dir_age =
                Max({ r.dir_age : r \in { q \in matched : SampleName(q.d) = n } })

\* Both projects resolved; one sample name was matched in both, at different
\* levels and with different modification times.
C1_Witness ==
    /\ pending = <<>>
    /\ \E r1, r2 \in matched :
         /\ SampleName(r1.d) = SampleName(r2.d)
         /\ r1.project = "Project_A" /\ r2.project = "Project_B"
         /\ Len(r1.d) # Len(r2.d)
         /\ r1.dir_age > r2.dir_age
         /\ final_sample_dirs[SampleName(r1.d)] = r1

\* Whether d lies below bam_qc/current.
InsideCurrent(d) == Len(d) >= 2 /\ d[1] = "current"

\* The directories of the last call's project that were matched against
\* the pattern or are in the map.
Touched ==
    examined
    \cup { r.d : r \in { q \in matched : q.project = project } }
    \cup { final_sample_dirs[n].d :
             n \in { m \in DOMAIN final_sample_dirs :
                       final_sample_dirs[m].project = project } }

\* C2: when bam_qc has a subdirectory current, every directory the call
\* matched against the pattern or put in the map lies inside current.
C2_CurrentPreference ==
    (pc = "called" /\ <<"current">> \in fs) =>
        \A d \in Touched : InsideCurrent(d)

\* A matching directory outside current was not looked at (os.stat never
\* read its modification time); the one of that name inside current is in
\* the map.
C2_Witness ==
    /\ pc = "called"
    /\ <<"current", "C-1-N1-d">> \in fs
    /\ <<"C-1-N1-d">> \in fs
    /\ DOMAIN st_mtime = { <<"current", "C-1-N1-d">> }
    /\ final_sample_dirs["C-1-N1-d"].d = <<"current", "C-1-N1-d">>
    /\ final_sample_dirs["C-1-N1-d"].project = project

\* Whether the Level-0 candidates of the tree are those of bam_qc/current.
Substituted(tree) ==
    \E d \in tree : Len(d) = 1 /\ endswith(Spell(d[1]), "current")

\* The level of d: 0 for a Level-0 candidate, counted from bam_qc or, when
\* it replaces bam_qc, from bam_qc/current.
LevelOf(tree, d) == IF Substituted(tree) THEN Len(d) - 2 ELSE Len(d) - 1

\* C3: a call matches and adds only Level-0, Level-1 and Level-2
\* candidates; nothing at a fourth level is matched or put in the map.
C3_DepthBound ==
    pc = "called" => \A d \in Touched : LevelOf(fs, d) \in 0..2

\* A matching directory at the fourth level below non-matching, non-excluded
\* ancestors, and nothing else that matches: the map got no record.
C3_Witness ==
    /\ pc = "called"
    /\ fs = { <<"Batch1">>, <<"Batch1", "run">>, <<"Batch1", "run", "deep">>,
              <<"Batch1", "run", "deep", "C-1-N1-d">> }
    /\ examined = { <<"Batch1">>, <<"Batch1", "run">>, <<"Batch1", "run", "deep">> }
    /\ \A n \in DOMAIN final_sample_dirs : final_sample_dirs[n].project # project

\* ---------------------------------------------------- the Link Materializer

\* --version of the run, and the label of an earlier publication.
version == "V2"
other_version == "V1"

\* The sample names create_links may be given, the project that owns each
\* and the directory the Resolver found for it.
Keys == {"C-1-N1-d", "Sample_C-1-N1-d", "C-2-L1-d"}

KeyProject(k) == IF k = "C-2-L1-d" THEN "Project_B" ELSE "Project_A"

KeyDir(k) == IF k = "Sample_C-1-N1-d" THEN <<"Batch1", k>> ELSE <<"current", k>>

\* The file names glob can return: *bam first, then *bai.
NameOrder == <<"a.bam", "a.bai", "b.bai">>

FileNames == { NameOrder[i] : i \in 1..MaxFiles }

\* str.replace(t, ''), for a token t.
RECURSIVE RemoveToken(_, _)
RemoveToken(toks, t) ==
    IF toks = <<>> THEN <<>>
    ELSE (IF Head(toks) = t THEN <<>> ELSE <<Head(toks)>>)
         \o RemoveToken(Tail(toks), t)

\* '-'.join(toks.split('-')[0:n]), for n >= 1.
RECURSIVE TakeFields(_, _)
TakeFields(toks, n) ==
    IF toks = <<>> THEN <<>>
    ELSE IF Head(toks) = "-"
         THEN IF n = 1 THEN <<>>
              ELSE <<"-">> \o TakeFields(Tail(toks), n - 1)
         ELSE <<Head(toks)>> \o TakeFields(Tail(toks), n)

\* Lines 144-149.
patient_id(sample) ==
    LET p == TakeFields(Spell(sample), 2)
    IN  Unspell(IF "Sample_" \in Range(p) THEN RemoveToken(p, "Sample_") ELSE p)

\* Line 151.
sample_dir(sample) == Unspell(RemoveToken(Spell(sample), "Sample_"))

\* os.path.join(os.path.abspath(args.outdir), patient_id, sample_dir), for
\* every sample name (computed once).
SampleRoot == [k \in Keys |-> <<patient_id(k), sample_dir(k)>>]

\* Lines 153-154, below os.path.abspath(args.outdir).
basedir(sample) == SampleRoot[sample] \o <<version>>

\* Lines 238-239.
basedir_latest(sample) == SampleRoot[sample] \o <<"latest">>

\* The versioned directory of an earlier publication of the sample.
basedir_other(sample) == SampleRoot[sample] \o <<other_version>>

\* The path of a file link of the earlier publication of the sample.
other_path(sample, fname) == basedir_other(sample) \o <<fname>>

\* A destination inside the other version's directory.
dest_path_other(sample, fname) == other_path(sample, fname)

\* Line 166.
dest_path(sample, fname) == basedir(sample) \o <<fname>>

\* os.path.join(dir, fname) for the directory the map gives the sample.
src_path(sample, fname) == <<"runs", sample, fname>>

\* What can be at a path: nothing, a directory, a regular file, a symlink.
Absent == [kind |-> "absent", target |-> <<>>, mtime |-> 0]
Dir == [kind |-> "dir", target |-> <<>>, mtime |-> 0]
File(m) == [kind |-> "file", target |-> <<>>, mtime |-> m]
Link(t) == [kind |-> "link", target |-> t, mtime |-> 0]

\* st_mtime of a file below the runs directory; 0 when there is none.
SrcStat(t) ==
    IF t[2] = "old" THEN old_mtime
    ELSE IF t[2] \in DOMAIN src_files /\ t[3] \in Range(src_files[t[2]])
         THEN src_mtime
         ELSE 0

\* Whether the target of a symlink exists.
target_exists(o, t) ==
    IF t[1] = "out" THEN o[Tail(t)].kind = "dir" ELSE SrcStat(t) > 0

\* os.path.exists: follows symlinks.
path_exists(o, p) ==
    \/ o[p].kind \in {"dir", "file"}
    \/ o[p].kind = "link" /\ target_exists(o, o[p].target)

\* os.path.islink
islink(o, p) == o[p].kind = "link"

\* os.stat(os.path.realpath(p)).st_mtime, for a p that exists.
realpath_mtime(o, p) ==
    IF o[p].kind = "link" THEN SrcStat(o[p].target) ELSE o[p].mtime

\* An is_dead_link that lost its 'not': true of the links that resolve.
is_live_link(o, p) == islink(o, p) /\ path_exists(o, p)

\* is_dead_link, lines 263-267.
is_dead_link(o, p) == islink(o, p) /\ ~ path_exists(o, p)

\* os.remove, os.unlink
os_remove(o, p) == [o EXCEPT ![p] = Absent]

\* os.symlink(t, p) where nothing is at p.
os_symlink(o, t, p) == [o EXCEPT ![p] = Link(t)]

\* os.symlink raises FileExistsError when anything, a dangling link too, is at p.
symlink_raises(o, p) == o[p].kind # "absent"

\* os.makedirs(p, exist_ok=True)
os_makedirs(o, p) == IF o[p].kind = "absent" THEN [o EXCEPT ![p] = Dir] ELSE o

\* Line 127.
ZeroCounts == [i \in Range(Projects) |-> [samples |-> 0, files |-> 0]]

ZeroLinks == [i \in Range(Projects) |-> 0]

\* Every combination of --dryrun, --overwrite, --replace-old and --latest.
ArgsSet == [dryrun : BOOLEAN, overwrite : BOOLEAN, replace_old : BOOLEAN,
            latest : BOOLEAN]

\* The orders in which the dict can hold one or two of the samples.
SampleOrders ==
    { <<a>> : a \in Keys } \cup { q \in Keys \X Keys : q[1] # q[2] }

\* The paths below outdir the run of these samples can look at.
OutPaths(its) ==
    UNION { {basedir(k), basedir_other(k), basedir_latest(k)}
            \cup { dest_path(k, f) : f \in FileNames }
            \cup { other_path(k, f) : f \in FileNames } : k \in Range(its) }

EmptyTree(its) == [p \in OutPaths(its) |-> Absent]

\* The output trees a run can find: nothing; or, for one sample, its
\* versioned directory and in it at most one thing create_links did not
\* put there (a regular file, a link to a file of the superseded directory
\* "old", which may be gone); or something at its latest path (a real
\* directory, a link to the other version's directory, which may be gone or
\* may hold a link of that publication).
PreTrees(its) ==
    LET e == EmptyTree(its)
    IN  {[out |-> e, old |-> 0]}
        \cup UNION {
            LET b == [e EXCEPT ![basedir(k)] = Dir]
            IN  {[out |-> b, old |-> 0]}
                \cup { [out |-> [b EXCEPT ![dest_path(k, f)] = File(m)], old |-> 0] :
                         f \in FileNames, m \in Mtimes }
                \cup { [out |-> [b EXCEPT ![dest_path(k, f)] =
                                              Link(<<"runs", "old", f>>)],
                        old |-> m] :
                         f \in FileNames, m \in 0..MaxMtime }
                \cup { [out |-> [e EXCEPT ![basedir_latest(k)] = Dir], old |-> 0] }
                \cup { [out |-> [e EXCEPT ![basedir_latest(k)] =
                                      Link(<<"out">> \o basedir_other(k)),
                                          ![basedir_other(k)] = d],
                        old |-> 0] : d \in {Dir, Absent} }
                \cup { [out |-> [e EXCEPT ![basedir_latest(k)] =
                                      Link(<<"out">> \o basedir_other(k)),
                                          ![basedir_other(k)] = Dir,
                                          ![other_path(k, NameOrder[1])] =
                                      Link(<<"runs", "old", NameOrder[1]>>)],
                        old |-> 1] }
            : k \in Range(its) }

\* The record the Resolver leaves for sample k.
LinkRecord(k) == [project |-> KeyProject(k), d |-> KeyDir(k), dir_age |-> 1]

ResolverIdle ==
    /\ pending = <<>>
    /\ pc = "loop"
    /\ project = ""
    /\ fs_exists = FALSE
    /\ fs = {}
    /\ st_mtime = EmptyMap
    /\ examined = {}
    /\ matched = {}

\* main is about to call create_links (line 294) with some resolved map, on
\* some runs directory and some output tree.
InitLinks ==
    /\ ResolverIdle
    /\ \E its \in SampleOrders :
         /\ items = its
         /\ final_sample_dirs = [k \in Range(its) |-> LinkRecord(k)]
         /\ \E n \in [Range(its) -> 0..MaxFiles] :
              src_files = [k \in Range(its) |-> SubSeq(NameOrder, 1, n[k])]
         /\ src_mtime \in Mtimes
         /\ \E t \in PreTrees(its) :
              /\ out = t.out
              /\ out0 = t.out
              /\ old_mtime = t.old
    /\ args = NoArgs
    /\ queue = <<>>
    /\ fqueue = <<>>
    /\ pcl = "sample"
    /\ status = "idle"
    /\ count_files_linked = EmptyMap
    /\ links_made = EmptyMap
    /\ removals = {}
    /\ run = 0
    /\ prev = NoRun

\* A run that acts whatever --dryrun says.
acts_always(a) == TRUE

\* The condition of lines 158, 197, 226, 229 and 241: the run acts.
acts(a) == ~ a.dryrun

\* A run that replaces every existing destination.
skips_never(a, replace_old) == FALSE

\* The condition of line 184: the existing destination is left alone.
skips_existing(a, replace_old) == ~ a.overwrite /\ ~ replace_old

\* A count of every file the loop of line 165 sees.
is_counted_always(a, exists, skipped) == TRUE

\* Whether the file adds one to 'files': line 191 for a destination that
\* exists, after the continue of line 189; line 231 for one that does not,
\* inside the if of line 229.
is_counted(a, exists, skipped) == IF exists THEN ~ skipped ELSE acts(a)

\* A comparison that also takes a target of the same age for stale.
is_stale_or_same(a, o, dest, fpath) ==
    a.replace_old /\ realpath_mtime(o, dest) <= SrcStat(fpath)

\* Lines 172-178: with --replace-old, the link's target is older than fpath.
is_stale(a, o, dest, fpath) ==
    a.replace_old /\ realpath_mtime(o, dest) < SrcStat(fpath)

\* No safety measure.
may_remove_anything(o, dest) == TRUE

\* The safety measure of line 198.
may_remove(o, dest) == islink(o, dest)

\* An alias removed whenever something is there.
may_unlink_existing(o, p) == path_exists(o, p)

\* The condition of line 243.
may_unlink_latest(o, p) == path_exists(o, p) /\ islink(o, p)

\* The start of create_links, lines 125-129.
Begin(a) ==
    /\ args' = a
    /\ count_files_linked' = ZeroCounts
    /\ links_made' = ZeroLinks
    /\ removals' = {}
    /\ queue' = items
    /\ fqueue' = <<>>
    /\ pcl' = "sample"
    /\ status' = "running"
    /\ out0' = out
    /\ run' = run + 1
    /\ UNCHANGED <<rvars, items, src_files, src_mtime, old_mtime, out>>

\* The first run, with any options.
StartRun ==
    /\ status = "idle"
    /\ \E a \in ArgsSet : Begin(a)
    /\ UNCHANGED prev

\* The run has ended and the same command is run again on the tree it
\* left, for real.
Rerun ==
    /\ status \in {"done", "exit1", "crashed"}
    /\ run = 1
    /\ prev' = [args |-> args, status |-> status, count |-> count_files_linked]
    /\ Begin([args EXCEPT !.dryrun = FALSE])

\* Lines 129-163: the next sample; its files, its directory.
StartSample ==
    /\ status = "running" /\ pcl = "sample" /\ queue # <<>>
    /\ LET sample == Head(queue)
           proj == final_sample_dirs[sample].project
           files == src_files[sample]
       IN  IF Len(files) = 0
           THEN /\ queue' = Tail(queue)
                /\ UNCHANGED <<out, count_files_linked, fqueue, pcl>>
           ELSE /\ out' = IF acts(args) THEN os_makedirs(out, basedir(sample))
                          ELSE out
                /\ count_files_linked' =
                       [count_files_linked EXCEPT ![proj].samples = @ + 1]
                /\ fqueue' = files
                /\ pcl' = "file"
                /\ UNCHANGED queue
    /\ UNCHANGED <<rvars, args, items, src_files, src_mtime, old_mtime, out0,
                   status, links_made, removals, run, prev>>

\* Lines 165-233: one file of the sample.
LinkFile ==
    /\ status = "running" /\ pcl = "file"
    /\ LET sample == Head(queue)
           proj == final_sample_dirs[sample].project
           fpath == src_path(sample, Head(fqueue))
           dest == dest_path(sample, Head(fqueue))
           exists == path_exists(out, dest)
           skipped == exists /\ skips_existing(args, is_stale(args, out, dest, fpath))
           linked == [links_made EXCEPT ![proj] = @ + 1]
           goes_on == /\ status' = "running"
                      /\ fqueue' = Tail(fqueue)
                      /\ pcl' = IF Tail(fqueue) = <<>> THEN "latest" ELSE "file"
       IN  /\ count_files_linked' =
                  IF is_counted(args, exists, skipped)
                  THEN [count_files_linked EXCEPT ![proj].files = @ + 1]
                  ELSE count_files_linked
           /\ IF exists
              THEN IF skipped \/ ~ acts(args)
                   THEN /\ goes_on
                        /\ UNCHANGED <<out, links_made, removals>>
                   ELSE IF ~ may_remove(out, dest)
                        THEN /\ status' = "exit1"
                             /\ UNCHANGED <<out, links_made, removals, fqueue, pcl>>
                        ELSE /\ out' = os_symlink(os_remove(out, dest), fpath, dest)
                             /\ removals' = removals \cup {dest}
                             /\ links_made' = linked
                             /\ goes_on
              ELSE LET dead == is_dead_link(out, dest)
                       o1 == IF dead THEN os_remove(out, dest) ELSE out
                   IN  IF acts(args)
                       THEN /\ removals' = IF dead THEN removals \cup {dest}
                                           ELSE removals
                            /\ IF symlink_raises(o1, dest)
                               THEN /\ status' = "crashed"
                                    /\ out' = o1
                                    /\ UNCHANGED <<links_made, fqueue, pcl>>
                               ELSE /\ out' = os_symlink(o1, fpath, dest)
                                    /\ links_made' = linked
                                    /\ goes_on
                       ELSE /\ goes_on
                            /\ UNCHANGED <<out, links_made, removals>>
    /\ UNCHANGED <<rvars, args, items, src_files, src_mtime, old_mtime, out0,
                   queue, run, prev>>

\* Lines 235-258: the latest alias of the sample, then on to the next one.
LinkLatest ==
    /\ status = "running" /\ pcl = "latest"
    /\ LET sample == Head(queue)
           bl == basedir_latest(sample)
           unlinks == may_unlink_latest(out, bl)
           o1 == IF unlinks THEN os_remove(out, bl) ELSE out
           goes_on == /\ status' = "running"
                      /\ queue' = Tail(queue)
                      /\ pcl' = "sample"
       IN  IF args.latest /\ acts(args)
           THEN /\ removals' = IF unlinks THEN removals \cup {bl} ELSE removals
                /\ IF symlink_raises(o1, bl)
                   THEN /\ status' = "crashed"
                        /\ out' = o1
                        /\ UNCHANGED <<queue, pcl>>
                   ELSE /\ out' = os_symlink(o1, <<"out">> \o basedir(sample), bl)
                        /\ goes_on
           ELSE /\ goes_on
                /\ UNCHANGED <<out, removals>>
    /\ UNCHANGED <<rvars, args, items, src_files, src_mtime, old_mtime, out0,
                   fqueue, count_files_linked, links_made, run, prev>>

\* Line 260: every sample is done; the counts are printed.
Finish ==
    /\ status = "running" /\ pcl = "sample" /\ queue = <<>>
    /\ status' = "done"
    /\ UNCHANGED <<rvars, args, items, src_files, src_mtime, old_mtime, out,
                   out0, queue, fqueue, pcl, count_files_linked, links_made,
                   removals, run, prev>>

NextLinks ==
    StartRun \/ Rerun \/ StartSample \/ LinkFile \/ LinkLatest \/ Finish

SpecLinks == InitLinks /\ [][NextLinks]_vars

\* ---------------------------------------------- claims on the Materializer

\* The destination of the file the loop of line 165 is at.
CurDest == dest_path(Head(queue), Head(fqueue))

\* The next file's destination exists, is no symlink, and the options ask
\* for its removal in a real run.
GuardCase ==
    /\ status = "running" /\ pcl = "file"
    /\ ~ args.dryrun
    /\ out[CurDest].kind \in {"file", "dir"}
    /\ \/ args.overwrite
       \/ args.replace_old
          /\ out[CurDest].mtime < SrcStat(src_path(Head(queue), Head(fqueue)))

\* C4: in a real run, a destination that exists, is not a symlink and is to
\* be removed ends the run with exit status 1 in that very step, which
\* changes nothing below outdir; and nothing below outdir changes after the
\* exit as long as no new run is started.
C4_SafetyGuard ==
    /\ [][GuardCase => (status' = "exit1" /\ out' = out)]_vars
    /\ [][(status = "exit1" /\ run' = run) => (status' = "exit1" /\ out' = out)]_vars

\* The run exited on a regular file found under --replace-old alone, with a
\* second file, a second sample and the latest alias still to do, all of
\* them still absent.
C4_Witness ==
    /\ status = "exit1"
    /\ ~ args.overwrite /\ args.replace_old /\ args.latest
    /\ Len(queue) = 2 /\ Len(fqueue) = 2
    /\ out[CurDest].kind = "file"
    /\ out[dest_path(queue[1], fqueue[2])].kind = "absent"
    /\ out[basedir_latest(queue[1])].kind = "absent"
    /\ out[basedir(queue[2])].kind = "absent"

\* C5: no step removes or changes a regular file or a real directory below
\* outdir, and every path a step removes was a symlink before the step.
C5_OnlyLinksRemoved ==
    /\ [][\A p \in DOMAIN out :
            out[p].kind \in {"file", "dir"} => out'[p] = out[p]]_vars
    /\ [][\A p \in removals' \ removals : out[p].kind = "link"]_vars

\* A run that removed a file link and a latest alias and then met a regular
\* file, which is still there.
C5_Witness ==
    /\ \E p, q \in removals : Len(p) = 4 /\ Len(q) = 3
    /\ \E p \in DOMAIN out : out[p].kind = "file"
    /\ status = "exit1"

\* The paths of the file links of the versioned directories.
DestPaths == { p \in DOMAIN out : Len(p) = 4 }

\* C6: a real run with neither --overwrite nor --replace-old that follows a
\* completed real run with the same options updates no file (its 'files'
\* counts are zero, it makes and removes no file link), reports the same
\* 'samples' counts and leaves every file link as it found it.
C6_Idempotence ==
    (/\ run = 2 /\ status = "done"
     /\ prev.status = "done" /\ ~ prev.args.dryrun
     /\ ~ args.overwrite /\ ~ args.replace_old)
    => /\ \A i \in Range(Projects) :
            /\ count_files_linked[i].files = 0
            /\ links_made[i] = 0
            /\ count_files_linked[i].samples = prev.count[i].samples
       /\ removals \cap DestPaths = {}
       /\ \A p \in DestPaths : out[p] = out0[p]

\* The second of two such runs is over; the first one updated files of both
\* projects, and the second one has made the latest alias anew.
C6_Witness ==
    /\ run = 2 /\ status = "done"
    /\ prev.status = "done" /\ ~ prev.args.dryrun
    /\ ~ args.overwrite /\ ~ args.replace_old
    /\ prev.count["Project_A"].files = 2
    /\ prev.count["Project_B"].files = 1
    /\ args.latest /\ basedir_latest(items[1]) \in removals

\* C7, as claimed: a completed dry run reports the counts that the real run
\* with the same options, on the same tree, reports next.
C7_DryRunCounts ==
    (/\ run = 2 /\ status = "done"
     /\ prev.status = "done" /\ prev.args.dryrun)
    => prev.count = count_files_linked

\* C8: during and after a dry run everything below outdir is as it was when
\* the run began.
C8_DryRunNoMutation ==
    (status # "idle" /\ args.dryrun) => out = out0

\* A completed dry run with every other option set, over a tree with a
\* dangling file link and no latest alias: the link was counted as updated
\* and is still there.
C8_Witness ==
    /\ status = "done" /\ args.dryrun
    /\ args.overwrite /\ args.replace_old /\ args.latest
    /\ \E p \in DestPaths : is_dead_link(out, p)
    /\ \E k \in DOMAIN src_files :
         /\ src_files[k] # <<>>
         /\ out[basedir_latest(k)].kind = "absent"
         /\ out[basedir(k)].kind = "dir"

\* C9: when a real run completes, each project's 'samples' is the number of
\* its samples that have a bam or bai file and its 'files' is the number
\* of file links the run made.
C9_CountingRule ==
    (status = "done" /\ ~ args.dryrun)
    => \A i \in Range(Projects) :
         /\ count_files_linked[i].samples =
                Cardinality({ k \in DOMAIN final_sample_dirs :
                                /\ final_sample_dirs[k].project = i
                                /\ Len(src_files[k]) > 0 })
         /\ count_files_linked[i].files = links_made[i]

\* A completed real run over two samples of one project that share their
\* directory below outdir: the second one's files were skipped; and one
\* sample more without files would not count.
C9_Witness ==
    /\ status = "done" /\ ~ args.dryrun /\ run = 1
    /\ count_files_linked["Project_A"] = [samples |-> 2, files |-> 2]
    /\ Len(items) = 2

\* A sample whose latest step has been taken in this run.
LatestDone(k) ==
    /\ Len(src_files[k]) > 0
    /\ \/ k \in Range(items) \ Range(queue)
       \/ status = "crashed" /\ pcl = "latest" /\ Head(queue) = k

\* C10, as claimed: in a real run with --latest, once a sample with files
\* is processed its latest path is a symlink to the run's versioned
\* directory, whether there was no alias, an alias to another version's
\* directory, or a dangling alias.
C10_LatestRecreated ==
    (status # "idle" /\ ~ args.dryrun /\ args.latest)
    => \A k \in DOMAIN src_files :
         (LatestDone(k) /\ out0[basedir_latest(k)].kind \in {"absent", "link"})
         => out[basedir_latest(k)] = Link(<<"out">> \o basedir(k))

\* C11, as claimed: a run of create_links stops before the samples are all
\* done only on the safety measure of line 198, at a destination that is
\* not a symlink; nothing else, whatever is at a latest path, ends it.
C11_OnlyGuardStops ==
    (status \notin {"idle", "running", "done"})
    => /\ status = "exit1"
       /\ out[CurDest].kind \in {"file", "dir"}

\* ------------------------------------------ further claims on the Resolver

\* The directories of sample name n that project p contributed.
MatchedIn(p, n) == { r \in matched : r.project = p /\ SampleName(r.d) = n }

\* Sample name n was found in both projects, and its newest directory of
\* the one project is as new as its newest directory of the other.
Tie(n) ==
    /\ MatchedIn(Projects[1], n) # {}
    /\ MatchedIn(Projects[2], n) # {}
    /\ Max({ r.dir_age : r \in MatchedIn(Projects[1], n) })
         = Max({ r.dir_age : r \in MatchedIn(Projects[2], n) })

\* C12, as claimed: when both projects are resolved and a sample name was
\* found in both with identical modification times, the map holds the
\* record of the project processed last.
C12_TieLastWins ==
    pending = <<>> =>
        \A n \in DOMAIN final_sample_dirs :
            Tie(n) => final_sample_dirs[n].project = Projects[Len(Projects)]

\* C12, amended: when both projects are resolved and a sample name was
\* found in both with identical modification times, the map holds the
\* record of the project processed first.
C12_TieFirstWins ==
    pending = <<>> =>
        \A n \in DOMAIN final_sample_dirs :
            Tie(n) => final_sample_dirs[n].project = Projects[1]

\* Both projects resolved; each had one directory of the sample, of the
\* same age and at different places, and the first project's is in the map.
C12_Witness ==
    /\ pending = <<>>
    /\ \E r1, r2 \in matched :
         /\ MatchedIn("Project_A", "C-1-N1-d") = {r1}
         /\ MatchedIn("Project_B", "C-1-N1-d") = {r2}
         /\ r1.dir_age = r2.dir_age
         /\ r1.d # r2.d
         /\ final_sample_dirs["C-1-N1-d"] = r1

\* Whether the name of directory d ends with 'current'.
EndsWithCurrent(d) == endswith(Spell(SampleName(d)), "current")

\* Whether the name of directory d ends with none of the excluded names.
Kept(d) == ~ \E i \in FOLDERS_EXCLUDE : endswith(Spell(SampleName(d)), i)

\* The subdirectories of c in the tree that are not excluded.
KeptChildren(tree, c) ==
    { d \in tree : Len(d) = Len(c) + 1 /\ Parent(d) = c /\ Kept(d) }

\* C13, as claimed: when one Level-0 candidate c of the call has a name
\* that ends with 'current', the candidates matched at the first level are
\* the subdirectories of c that are not excluded, and a directory current
\* inside c is one of them, listed like any other and not substituted
\* again.
C13_SubstitutionTarget ==
    pc = "called" =>
        \A c \in fs :
            (/\ Len(c) = 1 /\ EndsWithCurrent(c)
             /\ \A e \in fs : (Len(e) = 1 /\ EndsWithCurrent(e)) => e = c)
            => /\ { d \in examined : Len(d) <= 2 } = KeptChildren(fs, c)
               /\ (c \o <<"current">>) \in fs
                    => KeptChildren(fs, c \o <<"current">>) \subseteq examined

\* C16: a get_sample_dirs call on a project whose bam_qc does not exist, is
\* empty or holds excluded subdirectories only returns the map it was
\* given, with nothing added and no record changed, and main's loop goes
\* on to the projects that remain.
C16_EmptyProject ==
    [][(/\ pc = "loop" /\ pc' = "called"
        /\ \A d \in fs' : Len(d) = 1 => ~ Kept(d))
       => /\ final_sample_dirs' = final_sample_dirs
          /\ matched' = matched
          /\ pending' = Tail(pending)]_vars

\* The second project's bam_qc exists and holds only a log directory with
\* a directory of a sample name inside; the record the first project gave
\* that sample is still in the map.
C16_Witness ==
    /\ pc = "called" /\ project = "Project_B"
    /\ fs_exists
    /\ fs = { <<"log">>, <<"log", "C-1-N1-d">> }
    /\ "C-1-N1-d" \in DOMAIN final_sample_dirs
    /\ final_sample_dirs["C-1-N1-d"].project = "Project_A"

\* ------------------------------------- further claims on the Materializer

\* The source file the loop of line 165 is at, and its project.
CurSrc == src_path(Head(queue), Head(fqueue))
CurProject == final_sample_dirs[Head(queue)].project

\* C14: in a real run with --replace-old and without --overwrite, the step
\* at a destination that is a symlink to a file that exists removes the
\* link, links the source in its place and adds one to 'files' when the
\* source's modification time is strictly greater than that of the link's
\* target; otherwise it leaves the link as it is and adds nothing.
C14_ReplaceStale ==
    [][(/\ status = "running" /\ pcl = "file"
        /\ ~ args.dryrun /\ args.replace_old /\ ~ args.overwrite
        /\ out[CurDest].kind = "link"
        /\ SrcStat(out[CurDest].target) > 0)
       => IF SrcStat(CurSrc) > SrcStat(out[CurDest].target)
          THEN /\ out'[CurDest] = Link(CurSrc)
               /\ CurDest \in removals'
               /\ count_files_linked'[CurProject].files =
                      count_files_linked[CurProject].files + 1
               /\ status' = "running"
          ELSE /\ out'[CurDest] = out[CurDest]
               /\ removals' = removals
               /\ count_files_linked' = count_files_linked
               /\ status' = "running"]_vars

\* A completed real run with --replace-old alone that found a link to an
\* older file that still exists and has put a link to the sample's file in
\* its place.
C14_Witness ==
    /\ status = "done" /\ run = 1
    /\ ~ args.dryrun /\ args.replace_old /\ ~ args.overwrite
    /\ 0 < old_mtime /\ old_mtime < src_mtime
    /\ \E p \in removals :
         /\ out0[p] = Link(<<"runs", "old", p[4]>>)
         /\ out[p] = Link(<<"runs", items[1], p[4]>>)
         /\ count_files_linked[KeyProject(items[1])].files = 1

\* C15: in a real run, whatever --overwrite and --replace-old are, the step
\* at a destination that is a symlink to a file that no longer exists
\* removes the link, makes a link to the source at the same path, adds one
\* to 'files' and leaves the run running; the destination then resolves to
\* the source file.
C15_DanglingCleanup ==
    [][(/\ status = "running" /\ pcl = "file"
        /\ ~ args.dryrun
        /\ out[CurDest].kind = "link"
        /\ SrcStat(out[CurDest].target) = 0)
       => /\ status' = "running"
          /\ CurDest \in removals' \ removals
          /\ out'[CurDest] = Link(CurSrc)
          /\ SrcStat(CurSrc) > 0
          /\ count_files_linked'[CurProject].files =
                 count_files_linked[CurProject].files + 1
          /\ links_made'[CurProject] = links_made[CurProject] + 1]_vars

\* A completed real run with --overwrite and --replace-old that found a
\* link to a file that is gone and has put a link to the sample's file in
\* its place.
C15_Witness ==
    /\ status = "done" /\ run = 1
    /\ ~ args.dryrun /\ args.overwrite /\ args.replace_old
    /\ old_mtime = 0
    /\ \E p \in removals :
         /\ out0[p] = Link(<<"runs", "old", p[4]>>)
         /\ out[p] = Link(<<"runs", items[1], p[4]>>)
         /\ path_exists(out, p)

\* C17, as claimed: after a completed first real run without --overwrite
\* and --replace-old on an empty output tree, the link at the destination
\* of every file of every sample points at that file, in the sample's own
\* directory.
C17_OwnDestinations ==
    (/\ status = "done" /\ run = 1
     /\ ~ args.dryrun /\ ~ args.overwrite /\ ~ args.replace_old
     /\ out0 = EmptyTree(items))
    => \A k \in Range(items) :
         \A f \in Range(src_files[k]) :
            out[dest_path(k, f)] = Link(src_path(k, f))

\* C18: no step of a run of version V2 changes what is at a path below
\* outdir other than the V2 directories, the paths inside them and the
\* latest paths: the directories of another version and the links inside
\* them stay as they are, whatever the options and also when the run ends
\* on the safety measure.
C18_VersionFrame ==
    [][\A p \in DOMAIN out :
          p[3] \notin {version, "latest"} => out'[p] = out[p]]_vars

\* A completed real run with every option set that has moved the latest
\* alias from the V1 directory to the V2 directory it filled; the V1
\* directory and its link are there.
C18_Witness ==
    /\ status = "done"
    /\ ~ args.dryrun /\ args.overwrite /\ args.replace_old /\ args.latest
    /\ \E k \in Range(items) :
         /\ out[basedir_other(k)] = Dir
         /\ out[other_path(k, NameOrder[1])] =
                Link(<<"runs", "old", NameOrder[1]>>)
         /\ out0[basedir_latest(k)] = Link(<<"out">> \o basedir_other(k))
         /\ out[basedir_latest(k)] = Link(<<"out">> \o basedir(k))
         /\ out[dest_path(k, NameOrder[1])] = Link(src_path(k, NameOrder[1]))

====
